---- MODULE Spec2Model ----
(***************************************************************************)
(* dynamodb-utils (src/index.js): the attribute encoder, the size          *)
(* accounting functions and the path functions, as operators over a model  *)
(* of JavaScript values, and one action per exported function that applies *)
(* it to inputs drawn from bounded sets.                                   *)
(*                                                                         *)
(* JavaScript values are records tagged by t.  A string is a sequence of   *)
(* characters (one-character TLA+ strings), so that trim, split, join and  *)
(* length are computed and not assumed.  An object is the sequence of its  *)
(* own enumerable <<key, value>> entries in Object.keys order; an array is *)
(* the sequence of its elements.  An exception is the outcome Throw.       *)
(***************************************************************************)
EXTENDS Integers, Sequences, FiniteSets, TLC

VARIABLES
  pc,      \* "idle", or "done" once the call in `call` has returned
  call,    \* the exported function called, with its arguments
  ret,     \* what the call returned, or the exception it raised
  callerRecord,  \* the plain value a caller of the path functions holds
  callerIndex,   \* the caller's getPropertyPaths(record), once built
  callerItem,    \* the caller's createAttribute(record), once encoded
  insert         \* an insertMultiObject run: its arguments, the current
                 \* invocation, the pages sent, the answers, the callbacks

vars == <<pc, call, ret, callerRecord, callerIndex, callerItem, insert>>

(***************************************************************************)
(* Bounds of the model.                                                    *)
(***************************************************************************)
\* nodes (containers and leaves) of an input of createAttribute / object2Map
MaxEncodeNodes == 3
\* nodes of an input of the size functions
MaxSizeNodes == 3
\* nodes of a record that is indexed and encoded
MaxIndexNodes == 4
\* nodes of a record whose paths are converted and resolved
MaxPathNodes == 3
\* tokens of a path
MaxPathLen == 3
\* nodes of a value passed to a path function with arguments of any shape
MaxArgNodes == 3
\* items handed to insertMultiObject
MaxItems == 3
\* largest page size handed to insertMultiObject
MaxStep == 3
\* pages and answers an insertMultiObject run keeps a record of
MaxPages == 6
\* stands for 2^53, from where on a double is not changed by adding -1
MaxMagnitude == 6

(***************************************************************************)
(* Strings.                                                                *)
(***************************************************************************)
Digits == <<"0", "1", "2", "3", "4", "5", "6", "7", "8", "9">>

DigitSet == {Digits[j] : j \in 1..10}

DigitValue(c) == CHOOSE d \in 0..9 : Digits[d + 1] = c

RECURSIVE NatToStr(_)
NatToStr(n) ==
  IF n < 10 THEN <<Digits[n + 1]>>
  ELSE NatToStr(n \div 10) \o <<Digits[(n % 10) + 1]>>

RECURSIVE StrToNat(_)
StrToNat(s) ==
  IF Len(s) = 0 THEN 0
  ELSE 10 * StrToNat(SubSeq(s, 1, Len(s) - 1)) + DigitValue(s[Len(s)])

IsAllDigits(s) == \A j \in 1..Len(s) : s[j] \in DigitSet

\* white space as String.prototype.trim sees it (the space is the only
\* white-space character of the model's alphabet)
IsWhite(c) == c = " "

RECURSIVE trimStart(_)
trimStart(s) ==
  IF Len(s) > 0 /\ IsWhite(s[1]) THEN trimStart(Tail(s)) ELSE s

RECURSIVE trimEnd(_)
trimEnd(s) ==
  IF Len(s) > 0 /\ IsWhite(s[Len(s)]) THEN trimEnd(SubSeq(s, 1, Len(s) - 1))
  ELSE s

trim(s) == trimEnd(trimStart(s))

(***************************************************************************)
(* JavaScript values.                                                      *)
(***************************************************************************)
Undefined == [t |-> "undefined"]
Null == [t |-> "null"]
Bool(b) == [t |-> "boolean", b |-> b]
Str(s) == [t |-> "string", s |-> s]
\* a finite non-negative number: integer part i, printed fractional digits f
Num(i, f) == [t |-> "number", k |-> "finite", i |-> i, f |-> f]
Int2Num(i) == Num(i, <<>>)
NaN == [t |-> "number", k |-> "NaN", i |-> 0, f |-> <<>>]
Infinity == [t |-> "number", k |-> "Infinity", i |-> 0, f |-> <<>>]
Func == [t |-> "function"]
ArrayBuffer(n) == [t |-> "arraybuffer", len |-> n]
Arr(a) == [t |-> "array", a |-> a]
Obj(m) == [t |-> "object", m |-> m]
Throw(e) == [t |-> "throw", e |-> e]
EmptyObject == Obj(<<>>)

typeof(v) ==
  IF v.t \in {"null", "array", "object", "arraybuffer"} THEN "object" ELSE v.t

instanceofArray(v) == v.t = "array"

instanceofObject(v) == v.t \in {"array", "object", "arraybuffer", "function"}

isFinite(v) == v.t = "number" /\ v.k = "finite"

\* Number.prototype.toString of the numbers of the model
numberToString(n) ==
  IF n.k # "finite" THEN
    (IF n.k = "NaN" THEN <<"N", "a", "N">>
     ELSE <<"I", "n", "f", "i", "n", "i", "t", "y">>)
  ELSE NatToStr(n.i) \o
       (IF Len(n.f) = 0 THEN <<>>
        ELSE <<".">> \o [j \in 1..Len(n.f) |-> Digits[n.f[j] + 1]])

(***************************************************************************)
(* Own properties.                                                         *)
(***************************************************************************)
\* a canonical array index: the keys an object enumerates first, ascending
IsIndexKey(k) ==
  Len(k) > 0 /\ IsAllDigits(k) /\ (Len(k) = 1 \/ k[1] # "0")

LengthKey == <<"l", "e", "n", "g", "t", "h">>

\* Object.keys(v) for a value that is not null or undefined
ObjectKeys(v) ==
  CASE v.t = "object" -> [j \in 1..Len(v.m) |-> v.m[j][1]]
    [] v.t = "array" -> [j \in 1..Len(v.a) |-> NatToStr(j - 1)]
    [] v.t = "string" -> [j \in 1..Len(v.s) |-> NatToStr(j - 1)]
    [] OTHER -> <<>>

\* v.hasOwnProperty(k) for a value that is not null or undefined
hasOwnProperty(v, k) ==
  CASE v.t = "object" -> \E j \in 1..Len(v.m) : v.m[j][1] = k
    [] v.t = "array" ->
         (IsIndexKey(k) /\ StrToNat(k) < Len(v.a)) \/ k = LengthKey
    [] v.t = "string" ->
         (IsIndexKey(k) /\ StrToNat(k) < Len(v.s)) \/ k = LengthKey
    [] OTHER -> FALSE

\* v[k] for a value that is not null or undefined
GetProperty(v, k) ==
  CASE v.t = "object" /\ hasOwnProperty(v, k) ->
         v.m[CHOOSE j \in 1..Len(v.m) : v.m[j][1] = k][2]
    [] v.t = "array" /\ IsIndexKey(k) /\ StrToNat(k) < Len(v.a) ->
         v.a[StrToNat(k) + 1]
    [] v.t = "array" /\ k = LengthKey -> Int2Num(Len(v.a))
    [] v.t = "string" /\ IsIndexKey(k) /\ StrToNat(k) < Len(v.s) ->
         Str(<<v.s[StrToNat(k) + 1]>>)
    [] v.t = "string" /\ k = LengthKey -> Int2Num(Len(v.s))
    [] OTHER -> Undefined

\* Object.defineProperty(object, key, {value, enumerable: true, ...}) on a
\* plain object: an existing key keeps its place, a new index key goes
\* among the index keys in ascending order, any other new key goes last
DefineProperty(object, key, value) ==
  LET m == object.m IN
  IF hasOwnProperty(object, key) THEN
    Obj([j \in 1..Len(m) |->
           IF m[j][1] = key THEN <<key, value>> ELSE m[j]])
  ELSE IF IsIndexKey(key) THEN
    LET before == Cardinality({j \in 1..Len(m) :
                     IsIndexKey(m[j][1]) /\ StrToNat(m[j][1]) < StrToNat(key)})
    IN Obj(SubSeq(m, 1, before) \o << <<key, value>> >>
           \o SubSeq(m, before + 1, Len(m)))
  ELSE Obj(Append(m, <<key, value>>))

addObjectProperty(object, key, value) == DefineProperty(object, key, value)

RECURSIVE AssignEntries(_, _)
AssignEntries(target, entries) ==
  IF Len(entries) = 0 THEN target
  ELSE AssignEntries(DefineProperty(target, entries[1][1], entries[1][2]),
                     Tail(entries))

\* Object.assign(target, source), source a plain object
ObjectAssign(target, source) == AssignEntries(target, source.m)

(***************************************************************************)
(* The attribute encoder.                                                  *)
(***************************************************************************)
TagS == <<"S">>
TagN == <<"N">>
TagB == <<"B">>
TagBOOL == <<"B", "O", "O", "L">>
TagNULL == <<"N", "U", "L", "L">>
TagL == <<"L">>
TagM == <<"M">>
TagSS == <<"S", "S">>
TagNS == <<"N", "S">>
TagBS == <<"B", "S">>

RECURSIVE createAttribute(_)
RECURSIVE object2Map(_)
RECURSIVE createAttributeEach(_)
RECURSIVE object2MapEach(_, _, _)

\* o.map((i) => newPropertyValue.push(createAttribute(i)))
createAttributeEach(a) ==
  IF Len(a) = 0 THEN <<>>
  ELSE <<createAttribute(a[1])>> \o createAttributeEach(Tail(a))

\* createAttributeCase with the string case testing o.length and keeping o
createAttributeCase_NoTrim(o) ==
  CASE typeof(o) = "string" ->
         IF Len(o.s) > 0
         THEN addObjectProperty(EmptyObject, TagS, o)
         ELSE EmptyObject
    [] typeof(o) = "number" ->
         IF isFinite(o)
         THEN addObjectProperty(EmptyObject, TagN, Str(numberToString(o)))
         ELSE EmptyObject
    [] typeof(o) = "boolean" -> addObjectProperty(EmptyObject, TagBOOL, o)
    [] typeof(o) = "object" ->
         IF instanceofArray(o)
         THEN addObjectProperty(EmptyObject, TagL, Arr(createAttributeEach(o.a)))
         ELSE IF instanceofObject(o)
         THEN ObjectAssign(EmptyObject, object2Map(o))
         ELSE IF o.t = "null"
         THEN addObjectProperty(EmptyObject, TagNULL, Bool(TRUE))
         ELSE EmptyObject
    [] OTHER -> EmptyObject

\* the tag added for a value at its switch case, before the fall-back
createAttributeCase(o) ==
  CASE typeof(o) = "string" ->
         IF Len(trim(o.s)) > 0
         THEN addObjectProperty(EmptyObject, TagS, Str(trim(o.s)))
         ELSE EmptyObject
    [] typeof(o) = "number" ->
         IF isFinite(o)
         THEN addObjectProperty(EmptyObject, TagN, Str(numberToString(o)))
         ELSE EmptyObject
    [] typeof(o) = "boolean" -> addObjectProperty(EmptyObject, TagBOOL, o)
    [] typeof(o) = "object" ->
         IF instanceofArray(o)
         THEN addObjectProperty(EmptyObject, TagL, Arr(createAttributeEach(o.a)))
         ELSE IF instanceofObject(o)
         THEN ObjectAssign(EmptyObject, object2Map(o))
         ELSE IF o.t = "null"
         THEN addObjectProperty(EmptyObject, TagNULL, Bool(TRUE))
         ELSE EmptyObject
    [] OTHER -> EmptyObject

\* createAttribute returning newProperty without the fall-back to NULL
createAttribute_NoFallback(o) ==
  IF o.t = "null" THEN Obj(<< <<TagNULL, Bool(TRUE)>> >>)
  ELSE createAttributeCase(o)

createAttribute(o) ==
  LET newProperty == createAttributeCase(o) IN
  IF Len(ObjectKeys(newProperty)) > 0 THEN newProperty
  ELSE createAttribute(Null)

\* Object.keys(o).map((k) => define mapValue[k] = createAttribute(o[k]))
object2MapEach(o, keys, mapValue) ==
  IF Len(keys) = 0 THEN mapValue
  ELSE LET newProperty == createAttribute(GetProperty(o, keys[1])) IN
       object2MapEach(o, Tail(keys),
                      DefineProperty(mapValue, keys[1], newProperty))

\* object2Map returning M without the test for an empty mapValue
object2Map_KeepEmpty(o) ==
  IF typeof(o) = "object" THEN
    IF o.t = "null" THEN Throw("TypeError")
    ELSE Obj(<< <<TagM, object2MapEach(o, ObjectKeys(o), EmptyObject)>> >>)
  ELSE createAttribute(Null)

object2Map(o) ==
  IF typeof(o) = "object" THEN
    IF o.t = "null" THEN Throw("TypeError")
    ELSE LET mapValue == object2MapEach(o, ObjectKeys(o), EmptyObject) IN
         IF Len(ObjectKeys(mapValue)) > 0
         THEN Obj(<< <<TagM, mapValue>> >>)
         ELSE createAttribute(Null)
  ELSE createAttribute(Null)

(***************************************************************************)
(* The size accounting functions.                                          *)
(***************************************************************************)
\* the character of the model's alphabet that takes two bytes in UTF-8
EAcute == "U+00E9"

\* bytes of one character once percent-encoded and unescaped
Utf8Bytes(c) == IF c = EAcute THEN 2 ELSE 1

\* the bytes of a string: one for every character, and one more for every
\* character that takes two
Utf8Length(s) ==
  Len(s) + Cardinality({j \in 1..Len(s) : Utf8Bytes(s[j]) = 2})

byteCount(s) ==
  IF typeof(s) = "string" THEN Int2Num(Utf8Length(s.s)) ELSE Undefined

BytesPerKilobyte == 1024

\* the digits a number of hundredths prints after the point
HundredthsDigits(r) ==
  IF r = 0 THEN <<>>
  ELSE IF r % 10 = 0 THEN <<r \div 10>>
  ELSE <<r \div 10, r % 10>>

\* (n / 1024).toFixed(2) * 1 for a whole number of bytes n: n / 1024 is
\* exact, toFixed rounds it to the nearest hundredth, a tie upwards
toKilobyte(n) ==
  IF typeof(n) = "number" THEN
    LET h == (n.i * 100 + (BytesPerKilobyte \div 2)) \div BytesPerKilobyte
    IN Num(h \div 100, HundredthsDigits(h % 100))
  ELSE Undefined

kilobyteCount(s) ==
  IF typeof(s) = "string" THEN toKilobyte(byteCount(s)) ELSE Undefined

\* Math.ceil of a finite non-negative number
MathCeil(n) == IF Len(n.f) = 0 THEN Int2Num(n.i) ELSE Int2Num(n.i + 1)

\* name.length, for the names whose length is read: strings and arrays
Length(name) == IF name.t = "string" THEN Len(name.s) ELSE Len(name.a)

stringSizeCount(name, s) == Length(name) + byteCount(s).i

RECURSIVE numberSizeLoop(_, _, _)
\* for (i; i <= fpartLength; i += 2) { size += 2 }
numberSizeLoop(i, fpartLength, size) ==
  IF i <= fpartLength THEN numberSizeLoop(i + 2, fpartLength, size + 2)
  ELSE size

numberSizeCount(name, n) ==
  LET size == Length(name) + 1 IN
  IF Len(n.f) > 0 THEN numberSizeLoop(0, Len(n.f), size) ELSE size

nullBoolSizeCount(name, nb) ==
  IF nb.t = "null" \/ typeof(nb) = "boolean" THEN Length(name) + 1 ELSE 0

RECURSIVE getObjectSize(_, _)
RECURSIVE objectSizeEach(_, _)
RECURSIVE arraySizeEach(_)

\* keys.map((k) => size += (3 + getObjectSize(k, o[k]))), the sum added
objectSizeEach(o, keys) ==
  IF Len(keys) = 0 THEN 0
  ELSE (3 + getObjectSize(Str(keys[1]), GetProperty(o, keys[1])))
       + objectSizeEach(o, Tail(keys))

objectSizeCount(name, o) == Length(name) + 3 + objectSizeEach(o, ObjectKeys(o))

\* a.map((e) => size += (3 + getObjectSize(e))), the sum added: the
\* element is passed as the name, and the value sized is undefined
arraySizeEach(a) ==
  IF Len(a) = 0 THEN 0
  ELSE (3 + getObjectSize(a[1], Undefined)) + arraySizeEach(Tail(a))

arraySizeCount(name, a) == Length(name) + 3 + arraySizeEach(a.a)

getObjectSize(name, o) ==
  CASE typeof(o) = "string" -> stringSizeCount(name, o)
    [] typeof(o) = "number" ->
         IF isFinite(o) THEN numberSizeCount(name, o) ELSE 0
    [] typeof(o) = "boolean" -> nullBoolSizeCount(name, o)
    [] typeof(o) = "object" ->
         IF instanceofArray(o) THEN arraySizeCount(name, o)
         ELSE IF instanceofObject(o) THEN objectSizeCount(name, o)
         ELSE IF o.t = "null" THEN nullBoolSizeCount(name, o)
         ELSE 0
    [] OTHER -> 0

RECURSIVE itemSizeEach(_, _)
\* keys.map((k) => size += getObjectSize(k, item[k])), the sum added
itemSizeEach(item, keys) ==
  IF Len(keys) = 0 THEN 0
  ELSE getObjectSize(Str(keys[1]), GetProperty(item, keys[1]))
       + itemSizeEach(item, Tail(keys))

\* itemSizeCount without the test keys.length > 0
itemSizeCount_NoKeysTest(item) ==
  IF instanceofObject(item)
  THEN MathCeil(toKilobyte(Int2Num(itemSizeEach(item, ObjectKeys(item)))))
  ELSE Undefined

itemSizeCount(item) ==
  IF instanceofObject(item) /\ Len(ObjectKeys(item)) > 0
  THEN MathCeil(toKilobyte(Int2Num(itemSizeEach(item, ObjectKeys(item)))))
  ELSE Undefined

(***************************************************************************)
(* The path functions.                                                     *)
(***************************************************************************)
False == Bool(FALSE)

IsThrow(v) == v.t = "throw"

\* null and undefined: reading a property of these raises a TypeError
IsNullish(v) == v.t \in {"null", "undefined"}

\* the property key that the value undefined converts to
UndefinedKey == <<"u", "n", "d", "e", "f", "i", "n", "e", "d">>

isObject(o) == typeof(o) = "object" /\ instanceofObject(o)

isArray(a) == typeof(a) = "object" /\ instanceofArray(a)

RECURSIVE Join(_, _)
\* Array.prototype.join of an array of strings
Join(names, delimiter) ==
  IF Len(names) = 0 THEN <<>>
  ELSE IF Len(names) = 1 THEN names[1].s
  ELSE names[1].s \o delimiter \o Join(Tail(names), delimiter)

IsPrefix(d, s) == Len(d) <= Len(s) /\ SubSeq(s, 1, Len(d)) = d

RECURSIVE SplitFrom(_, _, _)
SplitFrom(s, d, current) ==
  IF Len(s) = 0 THEN <<Str(current)>>
  ELSE IF IsPrefix(d, s)
  THEN <<Str(current)>> \o SplitFrom(SubSeq(s, Len(d) + 1, Len(s)), d, <<>>)
  ELSE SplitFrom(Tail(s), d, Append(current, s[1]))

\* String.prototype.split with a string separator, as an array of strings
Split(s, d) ==
  IF Len(d) = 0 THEN Arr([j \in 1..Len(s) |-> Str(<<s[j]>>)])
  ELSE Arr(SplitFrom(s, d, <<>>))

RECURSIVE StripZeros(_)
StripZeros(f) ==
  IF Len(f) > 0 /\ f[Len(f)] = 0 THEN StripZeros(SubSeq(f, 1, Len(f) - 1))
  ELSE f

\* the conversion of a string to a number, for strings of digits, points,
\* spaces and letters: white space is trimmed, the empty string is 0,
\* digits with at most one point are a decimal, anything else is NaN
StringToNumber(s) ==
  LET t == trim(s)
      points == {j \in 1..Len(t) : t[j] = "."}
      dot == IF points = {} THEN Len(t) + 1 ELSE CHOOSE j \in points : TRUE
      whole == SubSeq(t, 1, dot - 1)
      frac == SubSeq(t, dot + 1, Len(t))
  IN IF Len(t) = 0 THEN Int2Num(0)
     ELSE IF /\ Cardinality(points) <= 1
             /\ IsAllDigits(whole) /\ IsAllDigits(frac)
             /\ Len(whole) + Len(frac) > 0
     THEN Num(StrToNat(whole),
              StripZeros([j \in 1..Len(frac) |-> DigitValue(frac[j])]))
     ELSE NaN

\* the depth of nested calls the engine allows; every call that returns
\* on the records checked here nests far less deeply
CallStackLimit == 12

RECURSIVE getPropertyPathsRec(_, _)
RECURSIVE entriesPaths(_, _, _, _)
RECURSIVE arrayPaths(_, _, _)
RECURSIVE objectPaths(_, _, _)

\* the step pushed for element p at index i of an array value; reading
\* p[1] raises when p is null or undefined
arrayElementPaths(p, i, depth) ==
  IF IsNullish(p) THEN Throw("TypeError")
  ELSE LET key == NatToStr(i)
           subValue ==
             IF isObject(GetProperty(p, <<"1">>))
             THEN getPropertyPathsRec(addObjectProperty(EmptyObject, key, p),
                                      depth)
             ELSE p
       IN IF IsThrow(subValue) THEN subValue
          ELSE getPropertyPathsRec(
                 addObjectProperty(EmptyObject, key, subValue), depth)

\* pValue.map((p, i) => pathsArray.push(...)) from index i on
arrayPaths(a, i, depth) ==
  IF i >= Len(a) THEN Arr(<<>>)
  ELSE LET head == arrayElementPaths(a[i + 1], i, depth) IN
       IF IsThrow(head) THEN head
       ELSE LET rest == arrayPaths(a, i + 1, depth) IN
            IF IsThrow(rest) THEN rest ELSE Arr(<<head>> \o rest.a)

\* Object.entries(pValue).map((p) => pathsArray.push(...))
objectPaths(pValue, keys, depth) ==
  IF Len(keys) = 0 THEN Arr(<<>>)
  ELSE LET head == getPropertyPathsRec(
                     addObjectProperty(EmptyObject, keys[1],
                                       GetProperty(pValue, keys[1])), depth)
       IN IF IsThrow(head) THEN head
          ELSE LET rest == objectPaths(pValue, Tail(keys), depth) IN
               IF IsThrow(rest) THEN rest ELSE Arr(<<head>> \o rest.a)

\* Object.entries(o).map((prop) => ...) over the keys that are left
entriesPaths(o, keys, pathsObject, depth) ==
  IF Len(keys) = 0 THEN pathsObject
  ELSE LET pValue == GetProperty(o, keys[1])
           pathsArray ==
             IF isArray(pValue) THEN arrayPaths(pValue.a, 0, depth)
             ELSE IF isObject(pValue)
             THEN objectPaths(pValue, ObjectKeys(pValue), depth)
             ELSE Arr(<<>>)
       IN IF IsThrow(pathsArray) THEN pathsArray
          ELSE entriesPaths(o, Tail(keys),
                            addObjectProperty(pathsObject, keys[1], pathsArray),
                            depth)

\* getPropertyPaths(o) called at nesting depth `depth`: the engine's call
\* stack is finite, and a call nested deeper than the stack allows ends
\* in a RangeError (maximum call stack size exceeded)
getPropertyPathsRec(o, depth) ==
  IF IsNullish(o) THEN Throw("TypeError")
  ELSE IF depth >= CallStackLimit THEN Throw("RangeError")
  ELSE entriesPaths(o, ObjectKeys(o), EmptyObject, depth + 1)

getPropertyPaths(o) == getPropertyPathsRec(o, 0)

\* p.find((e) => e.hasOwnProperty(currentProperty)) for an array p of
\* objects: the first such element, or undefined
FindStep(p, currentProperty) ==
  LET hits == {j \in 1..Len(p.a) : hasOwnProperty(p.a[j], currentProperty)}
  IN IF hits = {} THEN Undefined
     ELSE p.a[CHOOSE j \in hits : \A k \in hits : j <= k]

\* propertyNames[0], as the property key it is used as
FirstKey(names) == IF Len(names) = 0 THEN UndefinedKey ELSE names[1].s

RECURSIVE toStringPathReduce(_, _)
\* the reduce callback of toStringPath over the names that are left; when
\* no step is found the ternary's else branch calls hasOwnProperty on
\* undefined, which raises
toStringPathReduce(p, names) ==
  IF Len(names) = 0 THEN p
  ELSE IF p.t = "null" THEN toStringPathReduce(p, Tail(names))
  ELSE IF ~isArray(p) THEN Throw("TypeError")
  ELSE LET currentProperty == names[1].s
           nextPathObject == FindStep(p, currentProperty)
       IN IF nextPathObject.t = "undefined" THEN Throw("TypeError")
          ELSE LET next == GetProperty(nextPathObject, currentProperty)
                   shouldAssignNextProperty ==
                     IF instanceofArray(next) THEN Len(next.a) > 0
                     ELSE hasOwnProperty(nextPathObject, currentProperty)
               IN toStringPathReduce(
                    IF shouldAssignNextProperty THEN next ELSE Null,
                    Tail(names))

toStringPath(paths, propertyNames, delimiter) ==
  LET pathCheck == isObject(paths)
      arrayCheck == pathCheck /\ isArray(propertyNames)
      allStringsCheck ==
        arrayCheck /\ \A j \in 1..Len(propertyNames.a) :
                         typeof(propertyNames.a[j]) = "string"
      legitFirstCheck ==
        allStringsCheck /\ hasOwnProperty(paths, FirstKey(propertyNames.a))
  IN IF legitFirstCheck THEN
       IF Len(propertyNames.a) = 0 THEN Throw("TypeError")
       ELSE LET p == toStringPathReduce(
                       GetProperty(paths, FirstKey(propertyNames.a)),
                       Tail(propertyNames.a))
            IN IF IsThrow(p) THEN p
               ELSE IF p.t # "null"
               THEN Str(Join(propertyNames.a, delimiter.s))
               ELSE Undefined
     ELSE Undefined

RECURSIVE toArrayPathReduce(_, _)
\* the reduce callback of toArrayPath over the properties that are left
toArrayPathReduce(p, properties) ==
  IF Len(properties) = 0 THEN p
  ELSE IF p.t = "null" THEN toArrayPathReduce(p, Tail(properties))
  ELSE IF ~isArray(p) THEN Throw("TypeError")
  ELSE LET currentProperty == properties[1].s
           nextPathObject == FindStep(p, currentProperty)
       IN toArrayPathReduce(
            IF nextPathObject.t # "undefined"
            THEN GetProperty(nextPathObject, currentProperty) ELSE Null,
            Tail(properties))

toArrayPath(paths, propertyString, delimiter) ==
  IF typeof(propertyString) # "string" THEN Throw("TypeError")
  ELSE
  LET pathsCheck == isObject(paths)
      properties == Split(propertyString.s, delimiter.s)
      legitFirstCheck == pathsCheck /\ hasOwnProperty(paths, FirstKey(properties.a))
  IN IF legitFirstCheck THEN
       LET p == toArrayPathReduce(GetProperty(paths, FirstKey(properties.a)),
                                  Tail(properties.a))
       IN IF IsThrow(p) THEN p
          ELSE IF p.t # "null" THEN properties ELSE Undefined
     ELSE Undefined

RECURSIVE hasPropertyAtPath(_, _, _)
RECURSIVE hasPropertyEach(_, _, _, _)

\* path.map((p, i) => ...) from index i on: every token is looked up in
\* item itself, and the last token found decides propertyFound
hasPropertyEach(item, path, i, propertyFound) ==
  IF i >= Len(path) THEN propertyFound
  ELSE IF IsNullish(item) THEN Throw("TypeError")
  ELSE IF hasOwnProperty(item, path[i + 1].s)
  THEN LET found == hasPropertyAtPath(GetProperty(item, path[i + 1].s),
                                       Arr(SubSeq(path, i + 2, Len(path))),
                                       Str(<<".">>))
       IN IF IsThrow(found) THEN found
          ELSE hasPropertyEach(item, path, i + 1, found)
  ELSE hasPropertyEach(item, path, i + 1, propertyFound)

hasPropertyAtPath(item, pathChain, delimiter) ==
  LET path ==
        IF instanceofArray(pathChain) THEN pathChain
        ELSE IF typeof(pathChain) = "string" /\ typeof(delimiter) = "string"
        THEN Split(pathChain.s, delimiter.s)
        ELSE False
  IN IF path = False THEN False
     ELSE IF Len(path.a) = 1 THEN
       (IF IsNullish(item) THEN Throw("TypeError")
        ELSE Bool(hasOwnProperty(item, path.a[1].s)))
     ELSE hasPropertyEach(item, path.a, 0, False)

ScalarTags == {TagS, TagN, TagB, TagNULL, TagBOOL}

ListTags == {TagL, TagSS, TagNS, TagBS}

\* isFinite(indexValue) && indexValue < list.length, indexValue a string
IndexInRange(indexValue, list) ==
  LET n == StringToNumber(indexValue.s) IN
  /\ isFinite(n)
  /\ list.t \in {"array", "string"}
  /\ n.i < Length(list)

\* the switch on attributeKeyCode with the M case keeping the node itself
nextAttributeFound_MKeepsNode(localPath, i, attributeFound, currentAttribute) ==
  LET attributeKeys == ObjectKeys(currentAttribute)
      attributeKeyCode == attributeKeys[1]
      nextPathLength == Len(localPath) - (i + 1)
  IN IF Len(attributeKeys) # 1 THEN attributeFound
     ELSE IF attributeKeyCode \in ScalarTags \cup {TagM} THEN currentAttribute
     ELSE IF attributeKeyCode \in ListTags THEN
       (IF nextPathLength > 1 THEN
          (IF IndexInRange(localPath[i + 2],
                           GetProperty(currentAttribute, attributeKeyCode))
           THEN GetProperty(currentAttribute, attributeKeyCode)
           ELSE attributeFound)
        ELSE GetProperty(currentAttribute, attributeKeyCode))
     ELSE attributeFound

\* attributeFound after the token at index i was found as currentAttribute:
\* the switch on the single key of currentAttribute
nextAttributeFound(localPath, i, attributeFound, currentAttribute) ==
  LET attributeKeys == ObjectKeys(currentAttribute)
      attributeKeyCode == attributeKeys[1]
      nextPathLength == Len(localPath) - (i + 1)
  IN IF Len(attributeKeys) # 1 THEN attributeFound
     ELSE IF attributeKeyCode \in ScalarTags THEN currentAttribute
     ELSE IF attributeKeyCode = TagM
     THEN GetProperty(currentAttribute, attributeKeyCode)
     ELSE IF attributeKeyCode \in ListTags THEN
       (IF nextPathLength > 1 THEN
          (IF IndexInRange(localPath[i + 2],
                           GetProperty(currentAttribute, attributeKeyCode))
           THEN GetProperty(currentAttribute, attributeKeyCode)
           ELSE attributeFound)
        ELSE GetProperty(currentAttribute, attributeKeyCode))
     ELSE attributeFound

RECURSIVE attributeWalk(_, _, _, _)
\* localPath.map((current, i) => ...) from index i on
attributeWalk(localPath, i, attributeFound, returnAttribute) ==
  IF i >= Len(localPath) THEN returnAttribute
  ELSE IF IsNullish(attributeFound) THEN Throw("TypeError")
  ELSE LET current == localPath[i + 1].s IN
    IF hasOwnProperty(attributeFound, current) THEN
      LET currentAttribute == GetProperty(attributeFound, current) IN
      IF IsNullish(currentAttribute) THEN Throw("TypeError")
      ELSE attributeWalk(localPath, i + 1,
                         nextAttributeFound(localPath, i, attributeFound,
                                            currentAttribute),
                         currentAttribute)
    ELSE attributeWalk(localPath, i + 1, attributeFound,
                       IF i + 1 = Len(localPath) THEN False
                       ELSE returnAttribute)

getAttributeAtPath(item, path, delimiter) ==
  LET localPath ==
        IF instanceofArray(path) THEN
          (IF \A j \in 1..Len(path.a) : typeof(path.a[j]) = "string"
           THEN path ELSE False)
        ELSE IF typeof(path) = "string" /\ typeof(delimiter) = "string"
        THEN Split(path.s, delimiter.s)
        ELSE False
      objectCheck == isObject(item)
      pathCheck == objectCheck /\ localPath # False
  IN IF IsNullish(item) THEN Throw("TypeError")
     ELSE
     LET legitFirstCheck ==
           hasOwnProperty(item, IF localPath = False THEN UndefinedKey
                                ELSE FirstKey(localPath.a))
     IN IF ~pathCheck \/ ~objectCheck \/ ~legitFirstCheck THEN False
        ELSE attributeWalk(localPath.a, 0, item, item)

hasAttributeAtPath(item, path, delimiter) ==
  LET found == getAttributeAtPath(item, path, delimiter) IN
  IF IsThrow(found) THEN found ELSE Bool(found # False)

(***************************************************************************)
(* Bounded sets of input values.                                           *)
(***************************************************************************)
\* the object keys of generated inputs
KeyA == <<"a">>
KeyB == <<"b">>
InputKeys == {KeyA, KeyB}

\* entries in Object.keys order: index keys first and ascending
KeysInOrder(ks) ==
  /\ \A i, j \in 1..Len(ks) : i < j => ks[i] # ks[j]
  /\ \A i, j \in 1..Len(ks) : i < j /\ IsIndexKey(ks[j]) =>
        IsIndexKey(ks[i]) /\ StrToNat(ks[i]) < StrToNat(ks[j])

KeySeqs(keys, n) ==
  IF n > Cardinality(keys) THEN {}
  ELSE {ks \in [1..n -> keys] : KeysInOrder(ks)}

RECURSIVE SeqsOfSize(_, _)
RECURSIVE SeqsHeadedBy(_, _, _)
\* the sequences of n nodes together whose first value has k or more nodes
SeqsHeadedBy(sized, n, k) ==
  IF k > n THEN {}
  ELSE {<<v>> \o rest : v \in sized[k], rest \in SeqsOfSize(sized, n - k)}
         \cup SeqsHeadedBy(sized, n, k + 1)

\* the sequences of values that have n nodes together, the values drawn
\* from sized, where sized[k] is the set of the values of exactly k nodes
SeqsOfSize(sized, n) == IF n = 0 THEN {<<>>} ELSE SeqsHeadedBy(sized, n, 1)

RECURSIVE ObjectsOf(_, _, _)
\* the plain objects whose values are one of seqs, of `size` or more entries
ObjectsOf(seqs, keys, size) ==
  IF size > Cardinality(keys) THEN {}
  ELSE {Obj([j \in 1..size |-> <<ks[j], s[j]>>]) :
          ks \in KeySeqs(keys, size), s \in {q \in seqs : Len(q) = size}}
         \cup ObjectsOf(seqs, keys, size + 1)

\* the values of exactly n nodes: leaves, arrays and plain objects
ValuesOfSize(sized, leaves, keys, n) ==
  LET seqs == SeqsOfSize(sized, n - 1)
  IN (IF n = 1 THEN leaves ELSE {}) \cup {Arr(s) : s \in seqs}
       \cup ObjectsOf(seqs, keys, 0)

RECURSIVE ValuesBySize(_, _, _)
\* <<the values of 1 node, ..., the values of n nodes>>
ValuesBySize(leaves, keys, n) ==
  IF n = 0 THEN <<>>
  ELSE LET sized == ValuesBySize(leaves, keys, n - 1)
       IN Append(sized, ValuesOfSize(sized, leaves, keys, n))

RECURSIVE AllOf(_, _)
\* the values of n nodes or fewer
AllOf(sized, n) == IF n = 0 THEN {} ELSE sized[n] \cup AllOf(sized, n - 1)

ValuesUpTo(leaves, keys, n) == AllOf(ValuesBySize(leaves, keys, n), n)

\* what the encoder does not support: no tag is ever added for these
UnsupportedValues == {Undefined, Func, NaN, Infinity, ArrayBuffer(0), ArrayBuffer(2)}

EncodeStrings ==
  {Str(<<>>), Str(<<" ", " ", " ">>), Str(<<"a">>), Str(<<" ", "a", "b", " ">>)}

EncodeLeaves ==
  EncodeStrings \cup {Int2Num(7), Num(1, <<5>>), Bool(TRUE), Bool(FALSE), Null}
    \cup UnsupportedValues

EncodeInputs == ValuesUpTo(EncodeLeaves, InputKeys, MaxEncodeNodes)

\* a string of n one-byte characters
BulkString(n) == Str([j \in 1..n |-> "x"])

\* string lengths around the 500-byte, 1 KB and 1.5 KB item sizes
BulkLengths == {499, 1023, 1024, 1535}

SizeLeaves ==
  {Str(<<>>), Str(<<"a", "b">>), Str(<<EAcute>>), Int2Num(7), Num(1, <<5>>),
   Num(0, <<2, 5>>), NaN, Bool(TRUE), Null, Undefined, Func, ArrayBuffer(2)}
    \cup {BulkString(n) : n \in BulkLengths}

SizeInputs == ValuesUpTo(SizeLeaves, InputKeys, MaxSizeNodes)

PathLeaves == {Int2Num(7), Null}

\* the records a caller indexes: plain objects of at most MaxIndexNodes
\* the keys of the records a caller indexes; "1" is also what p[1] reads
PathKeys == {KeyA, KeyB, <<"1">>}

PathRecords ==
  {v \in ValuesUpTo(PathLeaves, PathKeys, MaxIndexNodes) : v.t = "object"}

RECURSIVE NodeCount(_)
RECURSIVE NodeCountSeq(_)
NodeCountSeq(vs) ==
  IF Len(vs) = 0 THEN 0 ELSE NodeCount(vs[1]) + NodeCountSeq(Tail(vs))

NodeCount(v) ==
  CASE v.t = "array" -> 1 + NodeCountSeq(v.a)
    [] v.t = "object" -> 1 + NodeCountSeq([j \in 1..Len(v.m) |-> v.m[j][2]])
    [] OTHER -> 1

PathTokens == {Str(<<"a">>), Str(<<"b">>), Str(<<"0">>), Str(<<"1">>)}

\* the token sequences of 1 to MaxPathLen tokens
TokenPaths == UNION {[1..n -> PathTokens] : n \in 1..MaxPathLen}

Dot == Str(<<".">>)

SizeNames == {Str(<<>>), Str(<<"n">>), Str(<<"n", "m">>)}

(***************************************************************************)
(* The state machine: a call of one exported function, and its return.     *)
(***************************************************************************)
NoCall == [op |-> "none", args |-> <<>>]

\* a caller's index or item that is not there yet
NotYet == Undefined

\* no insertMultiObject run
NoInsert == [pc |-> "none"]

Init ==
  /\ pc = "idle"
  /\ call = NoCall
  /\ ret = Undefined
  /\ callerRecord = Undefined
  /\ callerIndex = NotYet
  /\ callerItem = NotYet
  /\ insert = NoInsert

ApplyCall(op, args, result) ==
  /\ pc' = "done"
  /\ call' = [op |-> op, args |-> args]
  /\ ret' = result

Apply(op, args, result) ==
  /\ ApplyCall(op, args, result)
  /\ UNCHANGED <<callerRecord, callerIndex, callerItem, insert>>

Return ==
  /\ pc = "done"
  /\ pc' = "idle"
  /\ call' = NoCall
  /\ ret' = Undefined
  /\ UNCHANGED <<callerRecord, callerIndex, callerItem, insert>>

CreateAttribute ==
  /\ pc = "idle"
  /\ \E o \in EncodeInputs : Apply("createAttribute", <<o>>, createAttribute(o))

Object2Map ==
  /\ pc = "idle"
  /\ \E o \in EncodeInputs : Apply("object2Map", <<o>>, object2Map(o))

NextEncode == CreateAttribute \/ Object2Map \/ Return

SpecEncode == Init /\ [][NextEncode]_vars

ItemSizeCount ==
  /\ pc = "idle"
  /\ \E item \in SizeInputs : Apply("itemSizeCount", <<item>>, itemSizeCount(item))

ArraySizeCount ==
  /\ pc = "idle"
  /\ \E name \in SizeNames, a \in {v \in SizeInputs : v.t = "array"} :
       Apply("arraySizeCount", <<name, a>>, Int2Num(arraySizeCount(name, a)))

ByteCount ==
  /\ pc = "idle"
  /\ \E s \in SizeLeaves : Apply("byteCount", <<s>>, byteCount(s))

KilobyteCount ==
  /\ pc = "idle"
  /\ \E s \in SizeLeaves : Apply("kilobyteCount", <<s>>, kilobyteCount(s))

\* finite numbers that print with 0, 1, 2, 3 and 4 fractional digits
SizeNumbers ==
  {Int2Num(7), Num(1, <<5>>), Num(0, <<2, 5>>), Num(1, <<1, 2, 5>>),
   Num(1, <<2, 3, 4, 5>>)}

\* getObjectSize's call for a finite number
NumberSizeCount ==
  /\ pc = "idle"
  /\ \E name \in SizeNames, n \in SizeNumbers :
       Apply("numberSizeCount", <<name, n>>, Int2Num(numberSizeCount(name, n)))

NextSize ==
  \/ ItemSizeCount
  \/ ArraySizeCount
  \/ ByteCount
  \/ KilobyteCount
  \/ NumberSizeCount
  \/ Return

SpecSize == Init /\ [][NextSize]_vars

(***************************************************************************)
(* A caller of the path functions: it holds a record, builds the record's  *)
(* index, encodes the record, and then converts and resolves paths.        *)
(***************************************************************************)
InitPath ==
  /\ pc = "idle"
  /\ call = NoCall
  /\ ret = Undefined
  /\ callerRecord \in PathRecords
  /\ callerIndex = NotYet
  /\ callerItem = NotYet
  /\ insert = NoInsert

GetPropertyPaths ==
  /\ pc = "idle"
  /\ callerIndex = NotYet
  /\ ApplyCall("getPropertyPaths", <<callerRecord>>, getPropertyPaths(callerRecord))
  /\ callerIndex' = getPropertyPaths(callerRecord)
  /\ UNCHANGED <<callerRecord, callerItem, insert>>

EncodeRecord ==
  /\ pc = "idle"
  /\ callerIndex # NotYet
  /\ callerItem = NotYet
  /\ ApplyCall("createAttribute", <<callerRecord>>, createAttribute(callerRecord))
  /\ callerItem' = createAttribute(callerRecord)
  /\ UNCHANGED <<callerRecord, callerIndex, insert>>

\* the caller is ready to work with paths of its record
PathReady ==
  pc = "idle" /\ callerItem # NotYet /\ NodeCount(callerRecord) <= MaxPathNodes

ToStringPath ==
  /\ PathReady
  /\ isObject(callerIndex)
  /\ \E tokens \in TokenPaths :
       Apply("toStringPath", <<callerIndex, Arr(tokens), Dot>>,
             toStringPath(callerIndex, Arr(tokens), Dot))

ToArrayPath ==
  /\ PathReady
  /\ isObject(callerIndex)
  /\ \E tokens \in TokenPaths :
       LET propertyString == Str(Join(tokens, Dot.s)) IN
       Apply("toArrayPath", <<callerIndex, propertyString, Dot>>,
             toArrayPath(callerIndex, propertyString, Dot))

HasPropertyAtPath ==
  /\ PathReady
  /\ \E tokens \in TokenPaths :
       Apply("hasPropertyAtPath", <<callerRecord, Arr(tokens), Dot>>,
             hasPropertyAtPath(callerRecord, Arr(tokens), Dot))

\* what a caller passes as the item: the encoded record, or the mapping
\* of attributes it holds under M
AttributeItems ==
  {callerItem} \cup (IF hasOwnProperty(callerItem, TagM) THEN {GetProperty(callerItem, TagM)}
               ELSE {})

GetAttributeAtPath ==
  /\ PathReady
  /\ \E tokens \in TokenPaths, target \in AttributeItems :
       Apply("getAttributeAtPath", <<target, Arr(tokens), Dot>>,
             getAttributeAtPath(target, Arr(tokens), Dot))

NextPath ==
  \/ GetPropertyPaths
  \/ EncodeRecord
  \/ ToStringPath
  \/ ToArrayPath
  \/ HasPropertyAtPath
  \/ GetAttributeAtPath
  \/ Return

SpecPath == InitPath /\ [][NextPath]_vars

Called(op) == pc = "done" /\ call.op = op

(***************************************************************************)
(* A caller that passes the path functions arguments of every shape: a     *)
(* path that is a number, a delimited string or a sequence of tokens, a    *)
(* delimiter that is a number, and values that hold nulls.                 *)
(***************************************************************************)
\* the values passed as o, item or indexed for paths
ArgValues == ValuesUpTo(PathLeaves, InputKeys, MaxArgNodes)

ArgTokens == {Str(KeyA), Str(KeyB)}

\* a number, delimited strings, and the token sequences of 1 to MaxPathLen
ArgPaths ==
  {Int2Num(123), Str(<<"a">>), Str(<<"a", ".", "b">>)} \cup
  UNION {{Arr(tokens) : tokens \in [1..n -> ArgTokens]} : n \in 1..MaxPathLen}

ArgDelimiters == {Dot, Int2Num(1)}

\* the indexes getPropertyPaths returns for the plain objects of ArgValues
ArgIndexes ==
  {getPropertyPaths(v) : v \in {w \in ArgValues : w.t = "object"}}
    \ {Throw("TypeError"), Throw("RangeError")}

GetPropertyPathsOf ==
  /\ pc = "idle"
  /\ \E o \in ArgValues :
       Apply("getPropertyPaths", <<o>>, getPropertyPaths(o))

ToStringPathOf ==
  /\ pc = "idle"
  /\ \E paths \in ArgIndexes, propertyNames \in ArgPaths :
       Apply("toStringPath", <<paths, propertyNames, Dot>>,
             toStringPath(paths, propertyNames, Dot))

ToArrayPathOf ==
  /\ pc = "idle"
  /\ \E paths \in ArgIndexes, propertyString \in ArgPaths :
       /\ ~instanceofArray(propertyString)
       /\ Apply("toArrayPath", <<paths, propertyString, Dot>>,
                toArrayPath(paths, propertyString, Dot))

HasPropertyAtPathOf ==
  /\ pc = "idle"
  /\ \E item \in ArgValues, pathChain \in ArgPaths,
        delimiter \in ArgDelimiters :
       Apply("hasPropertyAtPath", <<item, pathChain, delimiter>>,
             hasPropertyAtPath(item, pathChain, delimiter))

GetAttributeAtPathOf ==
  /\ pc = "idle"
  /\ \E item \in {createAttribute(v) : v \in ArgValues} \cup {Null},
        path \in ArgPaths, delimiter \in ArgDelimiters :
       Apply("getAttributeAtPath", <<item, path, delimiter>>,
             getAttributeAtPath(item, path, delimiter))

NextPathArgs ==
  \/ GetPropertyPathsOf
  \/ ToStringPathOf
  \/ ToArrayPathOf
  \/ HasPropertyAtPathOf
  \/ GetAttributeAtPathOf
  \/ Return

SpecPathArgs == Init /\ [][NextPathArgs]_vars

(***************************************************************************)
(* insertMultiObject: it sends one page of requestItems to batchWrite and, *)
(* from the handler of batchWrite's answer, either reports through the     *)
(* callback or calls itself for the next page.                             *)
(***************************************************************************)
NameKey == <<"n", "a", "m", "e">>
VersionKey == <<"v", "e", "r", "s", "i", "o", "n">>
IdKey == <<"i", "d">>
PutRequestKey == <<"P", "u", "t", "R", "e", "q", "u", "e", "s", "t">>
ItemKey == <<"I", "t", "e", "m">>

Min(a, b) == IF a < b THEN a ELSE b
Max(a, b) == IF a > b THEN a ELSE b

\* JSON.stringify of what batchWrite hands its handler
JSONStringify(body) ==
  CASE body = "err" -> "{\"code\":\"ProvisionedThroughputExceededException\"}"
    [] body = "response" -> "{\"UnprocessedItems\":{}}"

createResponse(code, body) ==
  [statusCode |-> code, body |-> JSONStringify(body)]

\* the relative index Array.prototype.slice makes of an argument
RelativeIndex(k, length) == IF k < 0 THEN Max(length + k, 0) ELSE Min(k, length)

\* startIndex + step on doubles: a sum below -MaxMagnitude is rounded back
\* to -MaxMagnitude
Plus(a, b) == Max(a + b, 0 - MaxMagnitude)

\* the mutated alternative of endIndexOf: the rest of the items at once
endIndexOf_AllAtOnce(startIndex, step, length) == length

\* (startIndex + step) >= requestItems.length ? requestItems.length : ...
endIndexOf(startIndex, step, length) ==
  IF Plus(startIndex, step) >= length THEN length ELSE Plus(startIndex, step)

\* the callback of requestItems.slice(...).map: p is changed in place
PreparedItem(p) ==
  LET versioned == IF ~hasOwnProperty(p, VersionKey)
                   THEN DefineProperty(p, VersionKey, Int2Num(1)) ELSE p
  IN DefineProperty(versioned, IdKey, GetProperty(versioned, NameKey))

PutRequest(p) == Obj(<< <<PutRequestKey, Obj(<< <<ItemKey, p>> >>)>> >>)

\* what is kept of a sequence that is recorded up to MaxPages entries
Recorded(log, entry) == IF Len(log) < MaxPages THEN Append(log, entry) ELSE log

\* the count of batchWrite calls, kept modulo MaxPages + 1: a run that
\* never ends keeps changing state through finitely many states
Counted(calls) == (calls + 1) % (MaxPages + 1)

\* insertMultiObject(client, table, requestItems, startIndex, step, callback)
\* up to and including its call of client.batchWrite
Invoke(run, startIndex) ==
  LET items == run.requestItems
      length == Len(items)
      endIndex == endIndexOf(startIndex, run.step, length)
      from == RelativeIndex(startIndex, length)
      to == RelativeIndex(endIndex, length)
      prepared == [j \in 1..length |->
                     IF from < j /\ j <= to THEN PreparedItem(items[j])
                     ELSE items[j]]
      page == [j \in 1..Max(to - from, 0) |-> PutRequest(prepared[from + j])]
  IN [run EXCEPT !.pc = "waiting",
                 !.startIndex = startIndex,
                 !.endIndex = endIndex,
                 !.requestItems = prepared,
                 !.pages = Recorded(run.pages, page),
                 !.batchWrites = Counted(run.batchWrites)]

\* the item named p<k>, with or without a version of its own
InsertItem(k, versioned) ==
  LET named == Obj(<< <<NameKey, Str(<<"p">> \o NatToStr(k))>> >>)
  IN IF versioned THEN DefineProperty(named, VersionKey, Int2Num(2)) ELSE named

ItemSeqs ==
  UNION {{[j \in 1..n |-> InsertItem(j, versioned[j])] :
            versioned \in [1..n -> BOOLEAN]} : n \in 0..MaxItems}

InitInsert ==
  /\ pc = "idle"
  /\ call = NoCall
  /\ ret = Undefined
  /\ callerRecord = Undefined
  /\ callerIndex = NotYet
  /\ callerItem = NotYet
  /\ \E items \in ItemSeqs, start \in -1..(MaxItems + 1), size \in -1..MaxStep :
       insert = [pc |-> "called",
                 given |-> [requestItems |-> items, startIndex |-> start],
                 requestItems |-> items,
                 startIndex |-> start, step |-> size, endIndex |-> NotYet,
                 pages |-> <<>>, answers |-> <<>>, callbacks |-> <<>>,
                 batchWrites |-> 0]

callerVars == <<pc, call, ret, callerRecord, callerIndex, callerItem>>

\* the caller's call of insertMultiObject
InsertMultiObject ==
  /\ insert.pc = "called"
  /\ insert' = Invoke(insert, insert.startIndex)
  /\ UNCHANGED callerVars

\* batchWrite answers with an error: callback(null, createResponse(501, err))
BatchWriteError ==
  /\ insert.pc = "waiting"
  /\ insert' = [insert EXCEPT
                  !.pc = "finished",
                  !.answers = Recorded(insert.answers, "err"),
                  !.callbacks = Append(insert.callbacks,
                                       createResponse(501, "err"))]
  /\ UNCHANGED callerVars

\* batchWrite answers without error: the callback when the page ended at
\* requestItems.length, otherwise insertMultiObject from endIndex on
BatchWriteOk ==
  /\ insert.pc = "waiting"
  /\ LET answered == [insert EXCEPT
                        !.answers = Recorded(insert.answers, "ok")]
     IN insert' =
          IF insert.endIndex = Len(insert.requestItems)
          THEN [answered EXCEPT
                  !.pc = "finished",
                  !.callbacks = Append(insert.callbacks,
                                       createResponse(200, "response"))]
          ELSE Invoke(answered, insert.endIndex)
  /\ UNCHANGED callerVars

NextInsert == InsertMultiObject \/ BatchWriteError \/ BatchWriteOk

SpecInsert == InitInsert /\ [][NextInsert]_vars

\* every call is carried out and every batchWrite is answered, with or
\* without an error
SpecInsertFair ==
  /\ SpecInsert
  /\ WF_vars(InsertMultiObject)
  /\ WF_vars(BatchWriteError \/ BatchWriteOk)

(***************************************************************************)
(* Attribute nodes, as the claims speak of them.                           *)
(***************************************************************************)
NULLTrue == Obj(<< <<TagNULL, Bool(TRUE)>> >>)
LNode(nodes) == Obj(<< <<TagL, Arr(nodes)>> >>)

Blank3 == Str(<<" ", " ", " ">>)

RECURSIVE IsEncodable(_)
\* a value built from strings, numbers, booleans, nulls, lists and maps
IsEncodable(v) ==
  CASE v.t \in {"string", "number", "boolean", "null"} -> TRUE
    [] v.t = "array" -> \A j \in 1..Len(v.a) : IsEncodable(v.a[j])
    [] v.t = "object" -> \A j \in 1..Len(v.m) : IsEncodable(v.m[j][2])
    [] OTHER -> FALSE

RECURSIVE WellFormedNode(_)
\* one populated tag among S, N, BOOL, NULL, L, M, and the tag's own rule
WellFormedNode(n) ==
  /\ n.t = "object"
  /\ Len(n.m) = 1
  /\ LET tag == n.m[1][1]
         v == n.m[1][2]
     IN CASE tag = TagS ->
               /\ v.t = "string"
               /\ Len(v.s) > 0
               /\ ~IsWhite(v.s[1])
               /\ ~IsWhite(v.s[Len(v.s)])
          [] tag = TagN -> v.t = "string" /\ Len(v.s) > 0
          [] tag = TagBOOL -> v.t = "boolean"
          [] tag = TagNULL -> v = Bool(TRUE)
          [] tag = TagL ->
               v.t = "array" /\ \A j \in 1..Len(v.a) : WellFormedNode(v.a[j])
          [] tag = TagM ->
               /\ v.t = "object"
               /\ Len(v.m) > 0
               /\ \A j \in 1..Len(v.m) : WellFormedNode(v.m[j][2])
          [] OTHER -> FALSE

C2_EncodingTotality ==
  Called("createAttribute") /\ call.args[1] \in UnsupportedValues =>
    ret = NULLTrue

\* C2 witness: a byte buffer has been encoded to NULL(true)
C2_Witness ==
  Called("createAttribute") /\ call.args[1] = ArrayBuffer(2) /\ ret = NULLTrue

\* C3: for every value built from strings, numbers, booleans, nulls, lists
\* and maps, every node of the tree createAttribute returns has exactly one
\* tag among S, N, BOOL, NULL, L, M; an S is non-empty and trimmed, a NULL
\* holds true, an M has at least one entry.
C3_NodeInvariant ==
  Called("createAttribute") /\ IsEncodable(call.args[1]) =>
    WellFormedNode(ret)

\* C3 witness: a map holding a list of one untrimmed string has been
\* encoded to an M over an L over an S
C3_Witness ==
  /\ Called("createAttribute")
  /\ call.args[1] = Obj(<< <<KeyA, Arr(<<Str(<<" ", "a", "b", " ">>)>>)>> >>)
  /\ ret = Obj(<< <<TagM,
           Obj(<< <<KeyA, LNode(<<Obj(<< <<TagS, Str(<<"a", "b">>)>> >>)>>)>> >>)>> >>)

(***************************************************************************)
(* Claims about the size functions (checked under SpecSize).               *)
(***************************************************************************)
\* the raw byte total of a record: getObjectSize summed over its keys
RawTotal(item) == itemSizeEach(item, ObjectKeys(item))

\* C4: for every non-empty mapping, itemSizeCount returns the smallest
\* integer K with K * 1024 >= total, total being getObjectSize summed over
\* the top-level keys.
C4_BillingRounding ==
  Called("itemSizeCount") /\ call.args[1].t = "object"
    /\ Len(call.args[1].m) > 0 =>
      LET total == RawTotal(call.args[1]) IN
      /\ ret.t = "number"
      /\ ret.f = <<>>
      /\ ret.i * 1024 >= total
      /\ (ret.i - 1) * 1024 < total

\* C5 (as amended): itemSizeCount returns undefined for {}, [], null,
\* undefined, a string, a number and a boolean; for a list that is not
\* empty it returns a number, the list being sized by its index keys.
C5_UndefinedOrListSize ==
  Called("itemSizeCount") =>
    LET item == call.args[1] IN
    /\ (item \in {EmptyObject, Arr(<<>>)} => ret = Undefined)
    /\ (item.t \in {"null", "undefined", "string", "number", "boolean"} =>
          ret = Undefined)
    /\ (item.t = "array" /\ Len(item.a) > 0 => ret.t = "number")

\* C5 witness: a list of two elements has been sized, to a number
C5_Witness ==
  /\ Called("itemSizeCount")
  /\ call.args[1] = Arr(<<Int2Num(7), Str(<<"a", "b">>)>>)
  /\ ret = Int2Num(0)

\* C5 as stated: itemSizeCount returns undefined for every input that is an
\* empty record or is not a mapping: {}, null, undefined, a string, a
\* number, a boolean, or a list.
C5_AsStated ==
  Called("itemSizeCount") =>
    LET item == call.args[1] IN
    (item = EmptyObject \/
     item.t \in {"null", "undefined", "string", "number", "boolean", "array"})
      => ret = Undefined

RECURSIVE ElementsSize(_)
\* for each element e, 3 + getObjectSize of e under an empty name
ElementsSize(a) ==
  IF Len(a) = 0 THEN 0
  ELSE (3 + getObjectSize(Str(<<>>), a[1])) + ElementsSize(Tail(a))

\* C6: arraySizeCount(name, a) is length(name) + 3 plus, for each element e
\* of a, 3 + the size of e computed by getObjectSize with an empty name.
C6_ListSizeRule ==
  Called("arraySizeCount") =>
    ret = Int2Num(Len(call.args[1].s) + 3 + ElementsSize(call.args[2].a))

(***************************************************************************)
(* Claims about the path functions (checked under SpecPath).               *)
(***************************************************************************)
RECURSIVE StepsOf(_)
\* one one-entry step per child of v, in v's own order, recursively; no
\* step for a scalar or null
StepsOf(v) ==
  CASE v.t = "array" ->
         Arr([j \in 1..Len(v.a) |->
                Obj(<< <<NatToStr(j - 1), StepsOf(v.a[j])>> >>)])
    [] v.t = "object" ->
         Arr([j \in 1..Len(v.m) |->
                Obj(<< <<v.m[j][1], StepsOf(v.m[j][2])>> >>)])
    [] OTHER -> Arr(<<>>)

\* the index that mirrors the shape of o
MirrorIndex(o) == Obj([j \in 1..Len(o.m) |-> <<o.m[j][1], StepsOf(o.m[j][2])>>])

RECURSIVE DescendsSteps(_, _)
\* every token is the key of a step in the step list reached so far
DescendsSteps(steps, tokens) ==
  IF Len(tokens) = 0 THEN TRUE
  ELSE \E j \in 1..Len(steps.a) :
         /\ hasOwnProperty(steps.a[j], tokens[1].s)
         /\ DescendsSteps(GetProperty(steps.a[j], tokens[1].s), Tail(tokens))

\* the token sequence can be descended in the index
Descends(paths, tokens) ==
  /\ Len(tokens) > 0
  /\ hasOwnProperty(paths, tokens[1].s)
  /\ DescendsSteps(GetProperty(paths, tokens[1].s), Tail(tokens))

RECURSIVE Follows(_, _)
\* the tokens can be followed one after another from v, each an own
\* property of the value under the token before it
Follows(v, tokens) ==
  IF Len(tokens) = 0 THEN TRUE
  ELSE /\ ~IsNullish(v)
       /\ hasOwnProperty(v, tokens[1].s)
       /\ Follows(GetProperty(v, tokens[1].s), Tail(tokens))

\* C7: for every nested value built from scalars, nulls, lists and maps,
\* getPropertyPaths returns the index with the value's top-level keys in
\* order and under each key one one-entry step per child, recursively,
\* with an empty step list for scalars and nulls.
C7_PathIndexShape ==
  Called("getPropertyPaths") => ret = MirrorIndex(call.args[1])

\* C8: toStringPath(index, tokens) returns the tokens joined by the
\* delimiter, and toArrayPath(index, joined) returns the tokens unchanged,
\* exactly when the tokens can be descended in the index (the final token
\* may name a leaf); in every other case both return nothing.
C8_PathConversion ==
  /\ Called("toStringPath") =>
       LET tokens == call.args[2].a IN
       ret = IF Descends(call.args[1], tokens)
             THEN Str(Join(tokens, call.args[3].s)) ELSE Undefined
  /\ Called("toArrayPath") =>
       \A tokens \in TokenPaths :
         Join(tokens, call.args[3].s) = call.args[2].s =>
           ret = IF Descends(call.args[1], tokens) THEN Arr(tokens)
                 ELSE Undefined

\* the caller resolves a path that its index makes descendable
ResolvesIndexedPath ==
  /\ Called("getAttributeAtPath")
  /\ isObject(callerIndex)
  /\ Descends(callerIndex, call.args[2].a)

C10_HasPropertyAtPath ==
  Called("hasPropertyAtPath") =>
    ret = Bool(Follows(call.args[1], call.args[2].a))

RECURSIVE ResolvesFrom(_, _)
\* every token names a child of the attribute node reached before it: a key
\* of the mapping of an M, a position of the list of an L, SS, NS or BS,
\* and nothing under a scalar
ResolvesFrom(node, tokens) ==
  IF Len(tokens) = 0 THEN TRUE
  ELSE IF node.t # "object" \/ Len(node.m) # 1 THEN FALSE
  ELSE LET tag == node.m[1][1]
           held == node.m[1][2]
           token == tokens[1].s
       IN IF tag = TagM
          THEN /\ held.t = "object"
               /\ hasOwnProperty(held, token)
               /\ ResolvesFrom(GetProperty(held, token), Tail(tokens))
          ELSE IF tag \in ListTags
          THEN /\ held.t = "array"
               /\ IsIndexKey(token)
               /\ StrToNat(token) < Len(held.a)
               /\ ResolvesFrom(held.a[StrToNat(token) + 1], Tail(tokens))
          ELSE FALSE

\* every token of the path resolves in order, the first as a key of the item
ResolvesInItem(item, tokens) ==
  /\ Len(tokens) > 0
  /\ hasOwnProperty(item, tokens[1].s)
  /\ ResolvesFrom(GetProperty(item, tokens[1].s), Tail(tokens))

\* C11: for every item of encoded attributes and every token path, if some
\* token does not name a child of the node reached by the tokens before it,
\* getAttributeAtPath returns false.
C11_PartialPathFailure ==
  Called("getAttributeAtPath") /\ hasOwnProperty(callerItem, TagM)
    /\ call.args[1] = GetProperty(callerItem, TagM)
    /\ ~ResolvesInItem(call.args[1], call.args[2].a) =>
      ret = False

PathOps ==
  {"getPropertyPaths", "toStringPath", "toArrayPath", "hasPropertyAtPath",
   "getAttributeAtPath"}

\* C12: for every argument shape, getPropertyPaths, toStringPath,
\* toArrayPath, hasPropertyAtPath and getAttributeAtPath return a value and
\* never end in an exception; hasPropertyAtPath with a path that is
\* neither a sequence nor a string returns false.
C12_PathOpsNeverRaise ==
  pc = "done" /\ call.op \in PathOps =>
    /\ ~IsThrow(ret)
    /\ (call.op = "hasPropertyAtPath" /\ call.args[2].t = "number" =>
          ret = False)

\* C14: for every name and finite number n, numberSizeCount is
\* length(name) + 1 when n prints without a fractional part, and otherwise
\* length(name) + 1 + 2 * ceil(d / 2), d being the number of printed
\* fractional digits.
C14_NumberSizeRule ==
  Called("numberSizeCount") =>
    LET name == call.args[1]
        d == Len(call.args[2].f)
    IN ret = Int2Num(Len(name.s) + 1 + 2 * ((d + 1) \div 2))

(***************************************************************************)
(* Claims about insertMultiObject (checked under SpecInsert and, for       *)
(* termination, under SpecInsertFair).                                     *)
(***************************************************************************)
\* a run started at offset 0 with a page size of 1 or more has called batchWrite
PagingFromZero ==
  /\ insert.pc \in {"waiting", "finished"}
  /\ insert.given.startIndex = 0
  /\ insert.step >= 1

\* ceil(n / step) pages for n items, and one page for no items
PagesNeeded(n, step) == Max(1, (n + step - 1) \div step)

\* the k-th consecutive slice of the given items, as batchWrite gets it
ExpectedPage(k) ==
  LET given == insert.given.requestItems
      first == Min((k - 1) * insert.step, Len(given))
      last == Min(k * insert.step, Len(given))
  IN [j \in 1..(last - first) |-> PutRequest(PreparedItem(given[first + j]))]

Failed == \E i \in 1..Len(insert.answers) : insert.answers[i] = "err"

\* C13: started at offset 0 with page size step >= 1 on n items, the pages
\* sent to batchWrite are the consecutive slices [0,step), [step,2*step),
\* ... in order and none twice; a page is sent only after the page before
\* it was answered without error; the callback is invoked once, with 200
\* after the page ending at item n was answered without error, or with 501
\* after an error, and no page is sent after it.
C13_PagingOrder ==
  PagingFromZero =>
    LET n == Len(insert.given.requestItems)
        sent == Len(insert.pages)
    IN /\ sent <= PagesNeeded(n, insert.step)
       /\ \A k \in 1..sent : insert.pages[k] = ExpectedPage(k)
       /\ \A i \in 1..(Len(insert.answers) - 1) : insert.answers[i] = "ok"
       /\ insert.pc = "waiting" =>
            /\ Len(insert.answers) = sent - 1
            /\ ~Failed
            /\ insert.callbacks = <<>>
       /\ insert.pc = "finished" =>
            /\ Len(insert.answers) = sent
            /\ Len(insert.callbacks) = 1
            /\ insert.callbacks[1].statusCode = IF Failed THEN 501 ELSE 200
            /\ ~Failed => sent = PagesNeeded(n, insert.step)

\* C13 witness: three items have been sent in pages of two, both pages
\* were answered without error, and the callback got status 200
C13_Witness ==
  /\ PagingFromZero
  /\ insert.pc = "finished"
  /\ Len(insert.given.requestItems) = 3
  /\ insert.step = 2
  /\ Len(insert.pages) = 2
  /\ Len(insert.pages[1]) = 2 /\ Len(insert.pages[2]) = 1
  /\ insert.answers = <<"ok", "ok">>
  /\ insert.callbacks = <<createResponse(200, "response")>>

\* C15: whatever the items, the starting offset and the page size are, 0
\* and negative page sizes included, a run of insertMultiObject whose
\* batchWrite calls are all answered eventually invokes the callback and
\* calls batchWrite no more.
C15_Termination == <>(insert.pc = "finished")

====
